---------------------------- MODULE Spec2Model ----------------------------
(***************************************************************************)
(* The ECDSA test keyring of beefy-test (src/beefy-test/src/keyring.rs).   *)
(*                                                                         *)
(* The keyring is a closed enum of eight identities with five operations:  *)
(* to_seed, pair, public, sign and iter.  The operations are modelled as   *)
(* operators that compute what the code computes; a small set of caller    *)
(* threads invokes them concurrently, and each thread keeps the arguments  *)
(* and the outcome of its call, so that the properties of the operations   *)
(* are properties of reachable states.                                     *)
(*                                                                         *)
(* sp_core::ecdsa (from_string, sign, public, verify, to_raw_vec) is an    *)
(* external crate.  It is modelled symbolically: a key pair is named by    *)
(* the (seed string, password) it was derived from, a signature by the     *)
(* (secret, message) it was made of, and verify accepts exactly the        *)
(* signatures made with the secret of the given public key over the given  *)
(* message.  Hash and curve collisions are outside this model.             *)
(***************************************************************************)
EXTENDS Naturals, Sequences, FiniteSets, TLC

(* ------------------------------ bounds -------------------------------- *)

\* Number of concurrent caller threads.
NThreads == 2

\* Longest message, in bytes, handed to sign.
MaxMsgLen == 1

\* The byte values messages are built from (a sample of u8).
ByteSample == {255}

Threads == 1..NThreads

RECURSIVE SeqsUpTo(_)
SeqsUpTo(n) ==
  IF n = 0 THEN {<<>>}
  ELSE LET shorter == SeqsUpTo(n - 1)
       IN shorter \cup {Append(s, b) : s \in {x \in shorter : Len(x) = n - 1}, b \in ByteSample}

\* The messages (&[u8]) the callers sign, the empty one included.
Msgs == SeqsUpTo(MaxMsgLen)

(* --------------------------- enum Keyring ----------------------------- *)

\* The variants, by discriminant, in declaration order.
Alice == 0
Bob == 1
Charlie == 2
Dave == 3
Eve == 4
Ferdie == 5
One == 6
Two == 7

Keyring == {Alice, Bob, Charlie, Dave, Eve, Ferdie, One, Two}

\* Number of variants (strum's generated COUNT).
KeyringCount == Cardinality(Keyring)

\* Option<T>: None is the empty sequence, Some(x) is <<x>>.
None == <<>>
Some(x) == <<x>>

\* (mutant: the labels printed in lower case)
Display_mut_lowercase(k) ==
  CASE k = Alice -> "alice"
    [] k = Bob -> "bob"
    [] k = Charlie -> "charlie"
    [] k = Dave -> "dave"
    [] k = Eve -> "eve"
    [] k = Ferdie -> "ferdie"
    [] k = One -> "one"
    [] k = Two -> "two"

\* #[derive(strum::Display)]: a variant prints as its identifier.
Display(k) ==
  CASE k = Alice -> "Alice"
    [] k = Bob -> "Bob"
    [] k = Charlie -> "Charlie"
    [] k = Dave -> "Dave"
    [] k = Eve -> "Eve"
    [] k = Ferdie -> "Ferdie"
    [] k = One -> "One"
    [] k = Two -> "Two"

\* #[derive(strum::EnumIter)]: the variant with a given position, if any.
KeyringIter_get(idx) ==
  CASE idx = 0 -> Some(Alice)
    [] idx = 1 -> Some(Bob)
    [] idx = 2 -> Some(Charlie)
    [] idx = 3 -> Some(Dave)
    [] idx = 4 -> Some(Eve)
    [] idx = 5 -> Some(Ferdie)
    [] idx = 6 -> Some(One)
    [] idx = 7 -> Some(Two)
    [] OTHER -> None

(* ------------------------------ state --------------------------------- *)

VARIABLES
  broken,   \* seed strings for which the external derivation reports an error
  pc,       \* per thread: "idle", "running", "returned" or "panicked"
  call,     \* per thread: the operation and arguments of its call
  result,   \* per thread: the value its call returned
  got,      \* per thread: what its iterator has yielded so far
  ended     \* per thread: its iterator has returned None

vars == <<broken, pc, call, result, got, ended>>

\* A call: the method, the identity it is called on, and the message (sign).
Call(op, k, msg) == <<op, k, msg>>
op_of(c) == c[1]
k_of(c) == c[2]
msg_of(c) == c[3]

NoCall == Call("none", Alice, <<>>)
NoValue == [kind |-> "none"]

(* ------------------------ sp_core::ecdsa ------------------------------ *)

Ok(v) == [ok |-> TRUE, val |-> v]
Err(e) == [ok |-> FALSE, val |-> [error |-> e]]

\* Pair::from_string(s, password) -> Result<Pair, SecretStringError>.
Pair_from_string(s, password) ==
  IF s \in broken THEN Err("InvalidFormat")
  ELSE Ok([secret |-> <<s, password>>])

\* Pair::to_raw_vec(&self): the raw secret key material.
Pair_to_raw_vec(p) == p.secret

\* Pair::public(&self).
Pair_public(p) == [pubOf |-> p.secret]

\* Pair::sign(&self, msg).
Pair_sign(p, msg) == [signature |-> <<p.secret, msg>>]

\* Pair::verify(sig, msg, public).
Pair_verify(sig, msg, pubkey) == sig.signature = <<pubkey.pubOf, msg>>

(* --------------------------- impl Keyring ----------------------------- *)

\* The outcome of a call: a returned value, or a panic that unwinds.
Ret(v) == [kind |-> "ret", val |-> v]
Panic(m) == [kind |-> "panic", val |-> [message |-> m]]

\* Result::expect(msg).
expect(r, m) == IF r.ok THEN Ret(r.val) ELSE Panic(m)

\* (mutant: the label left out of the seed string)
to_seed_mut_no_label(k) == "//"

\* Keyring::to_seed.
to_seed(k) == "//" \o Display(k)

\* (mutant: a password handed to the derivation)
pair_mut_password(k) ==
  expect(Pair_from_string(to_seed(k), Some("password")), "static values are known good; qed")

\* (mutant: every identity derived from Alice's seed)
pair_mut_fixed_seed(k) ==
  expect(Pair_from_string("//Alice", None), "static values are known good; qed")

\* (mutant: a default key instead of the panic)
pair_mut_unwrap_or_default(k) ==
  LET r == Pair_from_string(to_seed(k), None)
  IN IF r.ok THEN Ret(r.val) ELSE Ret([secret |-> <<"", None>>])

\* (mutant: a pair some caller still holds is handed out again)
pair_mut_cached(k) ==
  IF \E t \in Threads : pc[t] = "returned" /\ op_of(call[t]) = "pair"
  THEN Ret(result[CHOOSE t \in Threads : pc[t] = "returned" /\ op_of(call[t]) = "pair"])
  ELSE expect(Pair_from_string(to_seed(k), None), "static values are known good; qed")

\* Keyring::pair.
pair(k) ==
  expect(Pair_from_string(to_seed(k), None), "static values are known good; qed")

\* (mutant: the conversion ignores the identity)
from_mut_alice(k) == pair(Alice)

\* impl From<Keyring> for Pair.
from(k) == pair(k)

\* (mutant: the public key taken from another derivation than pair's)
public_mut_password(k) ==
  LET p == pair_mut_password(k)
  IN IF p.kind = "panic" THEN p ELSE Ret(Pair_public(p.val))

\* Keyring::public.
public(k) ==
  LET p == pair(k)
  IN IF p.kind = "panic" THEN p ELSE Ret(Pair_public(p.val))

\* (mutant: the message is not what gets signed)
sign_mut_drop_msg(k, msg) ==
  LET p == from(k)
  IN IF p.kind = "panic" THEN p ELSE Ret(Pair_sign(p.val, <<>>))

\* Keyring::sign.
sign(k, msg) ==
  LET p == from(k)
  IN IF p.kind = "panic" THEN p ELSE Ret(Pair_sign(p.val, msg))

\* struct KeyringIter { idx, back_idx }.
KeyringIter(i, b) == [cursor |-> <<i, b>>]
it_idx(it) == it.cursor[1]
it_back_idx(it) == it.cursor[2]

\* Keyring::iter(): a fresh iterator, positioned at the first variant.
iter == KeyringIter(0, 0)

\* (mutant: one cursor shared by every iterator)
next_mut_shared_cursor(it) ==
  LET held == {t \in Threads : pc[t] = "returned" /\ op_of(call[t]) = "iter"}
      i == CHOOSE n \in {it_idx(result[t]) : t \in held} :
             \A t \in held : it_idx(result[t]) <= n
  IN IF i + it_back_idx(it) >= KeyringCount
     THEN [item |-> None, it |-> KeyringIter(KeyringCount, it_back_idx(it))]
     ELSE [item |-> KeyringIter_get(i), it |-> KeyringIter(i + 1, it_back_idx(it))]

\* KeyringIter::next(): the item (an Option) and the iterator afterwards.
next(it) ==
  IF it_idx(it) + it_back_idx(it) >= KeyringCount
  THEN [item |-> None, it |-> KeyringIter(KeyringCount, it_back_idx(it))]
  ELSE [item |-> KeyringIter_get(it_idx(it)), it |-> KeyringIter(it_idx(it) + 1, it_back_idx(it))]

(* ----------------------------- actions -------------------------------- *)

InitThreads ==
  /\ pc = [t \in Threads |-> "idle"]
  /\ call = [t \in Threads |-> NoCall]
  /\ result = [t \in Threads |-> NoValue]
  /\ got = [t \in Threads |-> <<>>]
  /\ ended = [t \in Threads |-> FALSE]

\* The derivation primitive accepts every seed string.
Init ==
  /\ broken = {}
  /\ InitThreads

\* The seed strings a corrupted derivation primitive may reject.
BrokenSample == {{}, {"//Two"}}

\* The derivation primitive may be sound or corrupted.
InitFault ==
  /\ broken \in BrokenSample
  /\ InitThreads

Enter(t, c) ==
  /\ pc[t] = "idle"
  /\ pc' = [pc EXCEPT ![t] = "running"]
  /\ call' = [call EXCEPT ![t] = c]
  /\ UNCHANGED <<broken, result, got, ended>>

Call_to_seed(t, k) == Enter(t, Call("to_seed", k, <<>>))

Call_pair(t, k) == Enter(t, Call("pair", k, <<>>))

Call_public(t, k) == Enter(t, Call("public", k, <<>>))

Call_sign(t, k, msg) == Enter(t, Call("sign", k, msg))

Call_iter(t) == Enter(t, Call("iter", Alice, <<>>))

\* What the body of the called function evaluates to.
Outcome(c) ==
  CASE op_of(c) = "to_seed" -> Ret(to_seed(k_of(c)))
    [] op_of(c) = "pair" -> pair(k_of(c))
    [] op_of(c) = "public" -> public(k_of(c))
    [] op_of(c) = "sign" -> sign(k_of(c), msg_of(c))
    [] op_of(c) = "iter" -> Ret(iter)

\* The body runs to its end: the call returns its value, or panics.
Return(t) ==
  /\ pc[t] = "running"
  /\ LET o == Outcome(call[t])
     IN IF o.kind = "ret"
        THEN /\ pc' = [pc EXCEPT ![t] = "returned"]
             /\ result' = [result EXCEPT ![t] = o.val]
        ELSE /\ pc' = [pc EXCEPT ![t] = "panicked"]
             /\ result' = [result EXCEPT ![t] = NoValue]
  /\ UNCHANGED <<broken, call, got, ended>>

\* The caller advances the iterator it holds.
IterNext(t) ==
  /\ pc[t] = "returned"
  /\ op_of(call[t]) = "iter"
  /\ LET n == next(result[t])
     IN /\ result' = [result EXCEPT ![t] = n.it]
        /\ IF n.item = None
           THEN /\ ended' = [ended EXCEPT ![t] = TRUE]
                /\ got' = got
           ELSE /\ got' = [got EXCEPT ![t] = Append(@, n.item[1])]
                /\ ended' = ended
  /\ UNCHANGED <<broken, pc, call>>

\* The caller drops what it holds and is free for its next call.
Drop(t) ==
  /\ pc[t] \in {"returned", "panicked"}
  /\ pc' = [pc EXCEPT ![t] = "idle"]
  /\ call' = [call EXCEPT ![t] = NoCall]
  /\ result' = [result EXCEPT ![t] = NoValue]
  /\ got' = [got EXCEPT ![t] = <<>>]
  /\ ended' = [ended EXCEPT ![t] = FALSE]
  /\ UNCHANGED broken

Next ==
  \/ \E t \in Threads, k \in Keyring : Call_to_seed(t, k)
  \/ \E t \in Threads, k \in Keyring : Call_pair(t, k)
  \/ \E t \in Threads, k \in Keyring : Call_public(t, k)
  \/ \E t \in Threads, k \in Keyring, msg \in Msgs : Call_sign(t, k, msg)
  \/ \E t \in Threads : Call_iter(t)
  \/ \E t \in Threads : Return(t)
  \/ \E t \in Threads : IterNext(t)
  \/ \E t \in Threads : Drop(t)

Spec == Init /\ [][Next]_vars

SpecFault == InitFault /\ [][Next]_vars

(* ------------------------------ claims -------------------------------- *)

\* Thread t holds the value its call of op returned.
Returned(t, op) == pc[t] = "returned" /\ op_of(call[t]) = op

\* The seed strings the tests derive the expected pairs from.
SeedLiteral(k) ==
  CASE k = Alice -> "//Alice"
    [] k = Bob -> "//Bob"
    [] k = Charlie -> "//Charlie"
    [] k = Dave -> "//Dave"
    [] k = Eve -> "//Eve"
    [] k = Ferdie -> "//Ferdie"
    [] k = One -> "//One"
    [] k = Two -> "//Two"

\* The variants in the order the enum declares them.
DeclaredOrder == <<Alice, Bob, Charlie, Dave, Eve, Ferdie, One, Two>>

\* C1: a signature made by sign(i, m) verifies against m and public(i),
\* for every identity i and every message m, the empty one included.
C1_OwnSignatureVerifies ==
  \A s, p \in Threads :
    (Returned(s, "sign") /\ Returned(p, "public") /\ k_of(call[s]) = k_of(call[p]))
      => Pair_verify(result[s], msg_of(call[s]), result[p])

C1_Witness ==
  \E s, p \in Threads :
    /\ Returned(s, "sign") /\ Returned(p, "public")
    /\ k_of(call[s]) = Two /\ k_of(call[p]) = Two /\ msg_of(call[s]) = <<>>
    /\ Pair_verify(result[s], msg_of(call[s]), result[p])

\* C2: a signature made by sign(i1, m) never verifies against m and the
\* public key of another identity i2.
C2_OtherKeyRejects ==
  \A s, p \in Threads :
    (Returned(s, "sign") /\ Returned(p, "public") /\ k_of(call[s]) # k_of(call[p]))
      => ~Pair_verify(result[s], msg_of(call[s]), result[p])

C2_Witness ==
  \E s, p \in Threads :
    /\ Returned(s, "sign") /\ Returned(p, "public")
    /\ k_of(call[s]) = Alice /\ k_of(call[p]) = Bob
    /\ ~Pair_verify(result[s], msg_of(call[s]), result[p])

\* C3: a signature made by sign(i, m1) never verifies against another
\* message m2 under public(i).
C3_OtherMessageRejects ==
  \A s, p \in Threads :
    (Returned(s, "sign") /\ Returned(p, "public") /\ k_of(call[s]) = k_of(call[p]))
      => \A m2 \in Msgs \ {msg_of(call[s])} : ~Pair_verify(result[s], m2, result[p])

C3_Witness ==
  \E s, p \in Threads :
    /\ Returned(s, "sign") /\ Returned(p, "public")
    /\ k_of(call[s]) = Eve /\ k_of(call[p]) = Eve /\ msg_of(call[s]) # <<>>
    /\ \E m2 \in Msgs : m2 # msg_of(call[s]) /\ ~Pair_verify(result[s], m2, result[p])

\* C4: the pair every call of pair(i) returns has the raw key material of
\* an independent derivation from the literal "//<Label>" with no password,
\* and two calls of pair(i) return the same key material.
C4_PairIsTheDerivation ==
  \A t \in Threads :
    Returned(t, "pair") =>
      /\ Pair_to_raw_vec(result[t])
           = Pair_to_raw_vec(expect(Pair_from_string(SeedLiteral(k_of(call[t])), None), "Pair failed").val)
      /\ \A u \in Threads :
           (Returned(u, "pair") /\ k_of(call[u]) = k_of(call[t]))
             => Pair_to_raw_vec(result[u]) = Pair_to_raw_vec(result[t])

C4_Witness ==
  \E t, u \in Threads :
    /\ t # u /\ Returned(t, "pair") /\ Returned(u, "pair")
    /\ k_of(call[t]) = Charlie /\ k_of(call[u]) = Charlie
    /\ Pair_to_raw_vec(result[t]) = <<"//Charlie", None>>

\* C5: every call of to_seed(i) returns (it never fails), and what it
\* returns is exactly "//" followed by the label of i.
C5_SeedIsSlashSlashLabel ==
  \A t \in Threads :
    op_of(call[t]) = "to_seed" =>
      /\ pc[t] # "panicked"
      /\ pc[t] = "returned" => result[t] = SeedLiteral(k_of(call[t]))

C5_Witness ==
  \E t \in Threads :
    Returned(t, "to_seed") /\ k_of(call[t]) = Ferdie /\ result[t] = "//Ferdie"

\* C6: every iterator yields the eight identities in the declared order,
\* each once, and then ends, wherever the other iterators are.
C6_IterYieldsDeclaredOrder ==
  \A t \in Threads :
    Returned(t, "iter") =>
      /\ Len(got[t]) <= Len(DeclaredOrder)
      /\ got[t] = SubSeq(DeclaredOrder, 1, Len(got[t]))
      /\ ended[t] => got[t] = DeclaredOrder

C6_Witness ==
  \E t, u \in Threads :
    /\ Returned(t, "iter") /\ ended[t] /\ got[t] = DeclaredOrder
    /\ Returned(u, "iter") /\ ~ended[u] /\ Len(got[u]) = 3

\* C7: pair, public and sign either return a key pair, a public key or a
\* signature, or, when the derivation reports an error, panic; they never
\* return anything else.
C7_ValueOrPanic ==
  \A t \in Threads :
    (op_of(call[t]) \in {"pair", "public", "sign"} /\ pc[t] \in {"returned", "panicked"}) =>
      IF Pair_from_string(SeedLiteral(k_of(call[t])), None).ok
      THEN /\ pc[t] = "returned"
           /\ DOMAIN result[t] =
                CASE op_of(call[t]) = "pair" -> {"secret"}
                  [] op_of(call[t]) = "public" -> {"pubOf"}
                  [] op_of(call[t]) = "sign" -> {"signature"}
      ELSE /\ pc[t] = "panicked"
           /\ result[t] = NoValue

C7_Witness ==
  \E t, u \in Threads :
    /\ op_of(call[t]) = "sign" /\ pc[t] = "panicked" /\ result[t] = NoValue
    /\ Returned(u, "sign") /\ DOMAIN result[u] = {"signature"}

\* What the caller of thread t has observed of its call.
Observed(t) == <<pc[t], result[t], got[t], ended[t]>>

\* The same call with the same arguments (for an iterator: advanced as far).
SameCall(t, u) ==
  /\ call[t] = call[u]
  /\ pc[t] \in {"returned", "panicked"}
  /\ pc[u] \in {"returned", "panicked"}
  /\ Len(got[t]) = Len(got[u])
  /\ ended[t] = ended[u]

\* C8: whatever the other callers do, a call's result depends on its own
\* arguments only: two callers of the same operation with the same
\* arguments observe the same result.
C8_ResultDependsOnArgumentsOnly ==
  \A t, u \in Threads : SameCall(t, u) => Observed(t) = Observed(u)

C8_Witness ==
  \E t, u \in Threads :
    /\ t # u /\ SameCall(t, u) /\ Returned(t, "sign")
    /\ k_of(call[t]) = Dave /\ msg_of(call[t]) # <<>>
    /\ Observed(t) = Observed(u)

\* C9: public(i) is the public key of pair(i), and sign(i, m) is the
\* primitive's signature of m with pair(i).
C9_SameKeyAsPair ==
  \A t, u \in Threads :
    (Returned(t, "pair") /\ k_of(call[u]) = k_of(call[t])) =>
      /\ Returned(u, "public") => result[u] = Pair_public(result[t])
      /\ Returned(u, "sign") => result[u] = Pair_sign(result[t], msg_of(call[u]))

C9_Witness ==
  \E t, u \in Threads :
    /\ Returned(t, "pair") /\ Returned(u, "sign")
    /\ k_of(call[t]) = One /\ k_of(call[u]) = One
    /\ result[u] = Pair_sign(result[t], msg_of(call[u]))

\* C10: distinct identities have distinct seed strings and distinct
\* public keys.
C10_SeedsAndKeysDistinct ==
  \A t, u \in Threads :
    k_of(call[t]) # k_of(call[u]) =>
      /\ (Returned(t, "to_seed") /\ Returned(u, "to_seed")) => result[t] # result[u]
      /\ (Returned(t, "public") /\ Returned(u, "public")) => result[t] # result[u]

C10_Witness ==
  \E t, u \in Threads :
    /\ Returned(t, "to_seed") /\ Returned(u, "to_seed")
    /\ k_of(call[t]) = One /\ k_of(call[u]) = Two
    /\ result[t] # result[u]

=============================================================================
